---------------------------- MODULE Spec2Model ----------------------------
(***************************************************************************)
(* The ranking engine of src/eji_analyzer_archived.py: normalize_data      *)
(* (min-max scaling of the selected indicator columns), topsis (ideal      *)
(* best/worst, Euclidean distances, closeness score, dense percentile      *)
(* rank) and display_results, run as main's Calculate handler runs them.   *)
(*                                                                         *)
(* Numbers.  Indicator values are floats in the program.  Here they are    *)
(* exact rationals [n, d] in lowest terms, or NaN.  A distance is the      *)
(* square root of a rational, kept as that rational; a score               *)
(* sqrt(w) / (sqrt(b) + sqrt(w)) is kept as the pair (w, b) and compared   *)
(* exactly.  Rounding of IEEE arithmetic is not modelled.                  *)
(*                                                                         *)
(* Tables.  A DataFrame is a mutable object: the heap maps a reference to  *)
(* the table it holds, so that an in-place assignment through one          *)
(* reference is seen through every alias of it.                            *)
(***************************************************************************)
EXTENDS Integers, FiniteSets, Sequences, TLC

\* Bounds of the model: the regions (rows) of the uploaded table and the
\* largest raw indicator value.
NumRegions == 3
MaxVal == 2

Regions == 1..NumRegions
\* The indicator columns of the uploaded table, and one more name that a
\* caller may select although the table has no such column.
TableColumns == {"X", "Y"}
IndicatorNames == TableColumns \cup {"Z"}

---------------------------------------------------------------------------
\* Exact arithmetic on cells: [nan, n, d] with d > 0, lowest terms.

RECURSIVE Gcd(_, _)
Gcd(a, b) == IF b = 0 THEN a ELSE Gcd(b, a % b)

Abs(x) == IF x < 0 THEN -x ELSE x

NaN == [nan |-> TRUE, n |-> 0, d |-> 1]

\* The number n/d (d # 0), reduced, with a positive denominator.
Num(n, d) ==
    LET g == Gcd(Abs(n), Abs(d))
        s == IF d < 0 THEN -1 ELSE 1
    IN [nan |-> FALSE, n |-> s * (n \div g), d |-> s * (d \div g)]

Zero == Num(0, 1)
One == Num(1, 1)

\* IEEE: an operation with a NaN operand is NaN, and 0 / 0 is NaN.  The
\* program never divides a nonzero number by zero: the scaler replaces a zero
\* range by 1, and a score's denominator is zero only when its numerator is.
RAdd(a, b) == IF a.nan \/ b.nan THEN NaN ELSE Num(a.n * b.d + b.n * a.d, a.d * b.d)
RSub(a, b) == IF a.nan \/ b.nan THEN NaN ELSE Num(a.n * b.d - b.n * a.d, a.d * b.d)
RMul(a, b) == IF a.nan \/ b.nan THEN NaN ELSE Num(a.n * b.n, a.d * b.d)
RDiv(a, b) == IF a.nan \/ b.nan \/ b.n = 0 THEN NaN ELSE Num(a.n * b.d, a.d * b.n)
RLess(a, b) == ~a.nan /\ ~b.nan /\ a.n * b.d < b.n * a.d
REq(a, b) == ~a.nan /\ ~b.nan /\ a.n * b.d = b.n * a.d

---------------------------------------------------------------------------
\* DataFrames.

\* pd.DataFrame(): no columns, no rows.
EmptyDataFrame ==
    [columns |-> {}, index |-> {}, at |-> <<>>, topsis_score |-> <<>>, topsis_rank |-> <<>>]

\* df.empty
IsEmpty(t) == t.columns = {} \/ t.index = {}

\* The tables a caller can upload: every region has a cell, a number in
\* 0..MaxVal or absent, in every indicator column.
RawCells == {NaN} \cup {Num(v, 1) : v \in 0..MaxVal}

\* Every operation of the engine is a map over the rows or a reduction of a
\* column over the rows, so a permutation of the rows of the input permutes
\* the rows of every result (TLC confirms it for normalize_data, topsis and
\* their errors over every table of these bounds, every selection and every
\* permutation).  One table of each class of tables equal up to the order of
\* their rows is enumerated: the one whose rows are in non-decreasing order
\* of RowCode.
CellCode(x) == IF x.nan THEN 0 ELSE x.n + 1
RowCode(row) == CellCode(row["X"]) * (MaxVal + 2) + CellCode(row["Y"])

UploadedTables ==
    {[columns |-> TableColumns, index |-> Regions, at |-> a,
      topsis_score |-> <<>>, topsis_rank |-> <<>>] :
        a \in {f \in [Regions -> [TableColumns -> RawCells]] :
                \A r \in Regions \ {NumRegions} : RowCode(f[r]) <= RowCode(f[r + 1])}}

\* df[col], for the rows with a value.
Present(t, c) == {r \in t.index : ~t.at[r][c].nan}

\* np.nanmin / np.nanmax of a column: NaN for a column with no value.
NanMin(t, c) ==
    IF Present(t, c) = {} THEN NaN
    ELSE LET m == CHOOSE r \in Present(t, c) :
                    \A q \in Present(t, c) : ~RLess(t.at[q][c], t.at[r][c])
         IN t.at[m][c]

NanMax(t, c) ==
    IF Present(t, c) = {} THEN NaN
    ELSE LET m == CHOOSE r \in Present(t, c) :
                    \A q \in Present(t, c) : ~RLess(t.at[r][c], t.at[q][c])
         IN t.at[m][c]

---------------------------------------------------------------------------
\* sklearn's MinMaxScaler (feature_range (0, 1)), as normalize_data uses it.

\* _handle_zeros_in_scale: a zero range is replaced by 1, so that a constant
\* column is shifted to 0 instead of divided by zero (as it is when the range
\* is used as it stands).
HandleZerosUnhandled(data_range) == data_range

HandleZerosInScale(data_range) ==
    IF ~data_range.nan /\ data_range.n = 0 THEN One ELSE data_range

\* fit, for column c: data_min and data_max with the NaNs disregarded,
\* scale_ = (1 - 0) / handle_zeros(data_max - data_min),
\* min_ = 0 - data_min * scale_.
Fit(t, c) ==
    LET data_min == NanMin(t, c)
        scale == RDiv(One, HandleZerosInScale(RSub(NanMax(t, c), data_min)))
    IN [scale_ |-> scale, min_ |-> RSub(Zero, RMul(data_min, scale))]

\* transform: X * scale_ + min_; a NaN cell stays NaN.
Transform(fitted, x) == RAdd(RMul(x, fitted.scale_), fitted.min_)

\* scaler.fit_transform(df[selected_indicators]) raises: a selected name that
\* is no column of df (KeyError), or a table without rows (ValueError).
FitTransformRaises(t, selected_indicators) ==
    ~(selected_indicators \subseteq t.columns) \/ t.index = {}

\* df[selected_indicators] = scaler.fit_transform(df[selected_indicators])
AssignScaled(t, selected_indicators) ==
    LET fitted == [c \in selected_indicators |-> Fit(t, c)]
    IN [t EXCEPT !.at = [r \in t.index |-> [c \in t.columns |->
            IF c \in selected_indicators THEN Transform(fitted[c], t.at[r][c])
            ELSE t.at[r][c]]]]

\* normalize_data(df, selected_indicators).  ret is the table returned, arg
\* the table passed in as it is after the call, same whether the object
\* returned is the object passed in, errors the st.error calls made.
normalize_data(t, selected_indicators) ==
    IF selected_indicators = {}
    THEN [ret |-> EmptyDataFrame, arg |-> t, same |-> FALSE, errors |-> <<>>]
    ELSE IF FitTransformRaises(t, selected_indicators)
    THEN [ret |-> EmptyDataFrame, arg |-> t, same |-> FALSE,
          errors |-> <<"An error occurred during normalization">>]
    ELSE LET scaled == AssignScaled(t, selected_indicators)
         IN [ret |-> scaled, arg |-> scaled, same |-> TRUE, errors |-> <<>>]

---------------------------------------------------------------------------
\* topsis.

\* df[selected_indicators].isnull().all().all()
AllMissing(t, selected_indicators) ==
    \A c \in selected_indicators : \A r \in t.index : t.at[r][c].nan

\* weights = {indicator: 1 ...}
Weight(c) == One

\* df[selected_indicators].mul(list(weights.values()))
weighted_matrix(t, selected_indicators) ==
    [t EXCEPT !.columns = selected_indicators,
              !.at = [r \in t.index |-> [c \in selected_indicators |->
                        RMul(t.at[r][c], Weight(c))]]]

\* weighted_matrix.max(axis=0) and .min(axis=0): NaNs skipped.
IdealBestAsMin(wm) == [c \in wm.columns |-> NanMin(wm, c)]

ideal_best(wm) == [c \in wm.columns |-> NanMax(wm, c)]
ideal_worst(wm) == [c \in wm.columns |-> NanMin(wm, c)]

\* (weighted_matrix - ideal) ** 2, one cell (an absent cell is NaN, and would
\* count as 0 after a fillna(0)).
SquaredDiffAbsentAsZero(x, ideal) ==
    LET v == IF x.nan THEN Zero ELSE x
    IN RMul(RSub(v, ideal), RSub(v, ideal))

SquaredDiff(x, ideal) == RMul(RSub(x, ideal), RSub(x, ideal))

\* Series.sum over the columns S of row f.  With skipna (the default) the
\* NaN cells are left out and a row of NaNs sums to 0; without it one NaN
\* cell makes the sum NaN.
RECURSIVE SumKeepNa(_, _)
SumKeepNa(f, S) ==
    IF S = {} THEN Zero
    ELSE LET c == CHOOSE x \in S : TRUE
         IN RAdd(f[c], SumKeepNa(f, S \ {c}))

RECURSIVE SumSkipNa(_, _)
SumSkipNa(f, S) ==
    IF S = {} THEN Zero
    ELSE LET c == CHOOSE x \in S : TRUE
         IN IF f[c].nan THEN SumSkipNa(f, S \ {c})
            ELSE RAdd(f[c], SumSkipNa(f, S \ {c}))

\* ((weighted_matrix - ideal)**2).sum(axis=1) for row r; the distance is
\* np.sqrt of it, kept here as its square.
SquaredDistance(wm, ideal, r) ==
    SumSkipNa([c \in wm.columns |-> SquaredDiff(wm.at[r][c], ideal[c])], wm.columns)

distance_to_best(wm) ==
    LET best == ideal_best(wm)
    IN [r \in wm.index |-> SquaredDistance(wm, best, r)]

distance_to_worst(wm) ==
    LET worst == ideal_worst(wm)
    IN [r \in wm.index |-> SquaredDistance(wm, worst, r)]

\* A score: NaN, or sqrt(w) / (sqrt(b) + sqrt(w)) for the squared distances
\* w (to ideal_worst) and b (to ideal_best).
NaNScore == [nan |-> TRUE, w |-> Zero, b |-> Zero]

\* distance_to_worst / (distance_to_best + distance_to_worst): NaN when a
\* distance is NaN and when both are 0 (0 / 0).
Closeness(b, w) ==
    IF b.nan \/ w.nan \/ (b.n = 0 /\ w.n = 0) THEN NaNScore
    ELSE [nan |-> FALSE, w |-> w, b |-> b]

topsis_score(wm) ==
    LET to_best == distance_to_best(wm)
        to_worst == distance_to_worst(wm)
    IN [r \in wm.index |-> Closeness(to_best[r], to_worst[r])]

\* Exact comparison of two defined scores: with s = sqrt(w)/(sqrt(b)+sqrt(w)),
\* s1 < s2 iff sqrt(w1)*sqrt(b2) < sqrt(w2)*sqrt(b1) iff w1*b2 < w2*b1.
ScoreLess(s1, s2) == RLess(RMul(s1.w, s2.b), RMul(s2.w, s1.b))
ScoreEq(s1, s2) == REq(RMul(s1.w, s2.b), RMul(s2.w, s1.b))

---------------------------------------------------------------------------
\* Series.rank(ascending=False, method='dense', pct=True): the values are
\* sorted in descending order and walked once; the rank goes up by one at
\* every change of value, and with pct each rank is divided by the last.

\* na_option='keep': only the rows with a score are ranked (with 'top' or
\* 'bottom' every row is).
RankedAll(score, index) == index

Ranked(score, index) == {r \in index : ~score[r].nan}

\* The ranked rows in descending order of score.
RECURSIVE SortDescending(_, _)
SortDescending(score, S) ==
    IF S = {} THEN <<>>
    ELSE LET m == CHOOSE r \in S : \A q \in S : ~ScoreLess(score[r], score[q])
         IN <<m>> \o SortDescending(score, S \ {m})

\* method='min': tied rows share the position of the first of them.
RECURSIVE MinRankAt(_, _, _)
MinRankAt(score, sorted, i) ==
    IF i = 1 THEN 1
    ELSE IF ScoreEq(score[sorted[i]], score[sorted[i - 1]])
         THEN MinRankAt(score, sorted, i - 1)
         ELSE i

\* method='dense': the rank of the i-th row of the sorted order.
RECURSIVE DenseRankAt(_, _, _)
DenseRankAt(score, sorted, i) ==
    IF i = 1 THEN 1
    ELSE DenseRankAt(score, sorted, i - 1)
         + (IF ScoreEq(score[sorted[i]], score[sorted[i - 1]]) THEN 0 ELSE 1)

\* The ranks of the ranked rows: row -> rank.
DenseRank(score, index) ==
    LET sorted == SortDescending(score, Ranked(score, index))
    IN [r \in Ranked(score, index) |->
            DenseRankAt(score, sorted, CHOOSE k \in 1..Len(sorted) : sorted[k] = r)]

\* pct=True divides a dense rank by the number of distinct values (the last
\* dense rank); the other methods divide by the number of ranked rows.
PctDenominatorCount(score, index) == Cardinality(Ranked(score, index))

PctDenominator(score, index) ==
    LET sorted == SortDescending(score, Ranked(score, index))
    IN DenseRankAt(score, sorted, Len(sorted))

\* df['topsis_score'].rank(ascending=False, method='dense', pct=True) * 100
topsis_rank(score, index) ==
    LET rank == DenseRank(score, index)
        last == PctDenominator(score, index)
    IN [r \in index |->
            IF r \in DOMAIN rank
            THEN RMul(RDiv(Num(rank[r], 1), Num(last, 1)), Num(100, 1))
            ELSE NaN]

\* df.assign(topsis_score=..., topsis_rank=...): a new table.
Assign(t, score, rank) ==
    [t EXCEPT !.columns = t.columns \cup {"topsis_score", "topsis_rank"},
              !.topsis_score = score,
              !.topsis_rank = rank]

\* df.assign(topsis_score=np.nan, topsis_rank=np.nan)
AssignNaN(t) == Assign(t, [r \in t.index |-> NaNScore], [r \in t.index |-> NaN])

\* The table with every score undefined, returned for a refused selection.
NaNScores(t) == AssignNaN(t)

\* The table topsis returns for a selection it refuses: pd.DataFrame().
NoScores(t) == EmptyDataFrame

\* topsis(df, selected_indicators): the table returned and the st.error
\* calls made.  df itself is not assigned to.  The except branch (lines
\* 91-93) is not modelled: no operation of lines 69-89 raises on a table of
\* numbers and NaNs.
topsis(t, selected_indicators) ==
    IF selected_indicators = {}
    THEN [ret |-> EmptyDataFrame, errors |-> <<>>]
    ELSE IF ~(selected_indicators \subseteq t.columns)
    THEN [ret |-> NoScores(t),
          errors |-> <<"One or more selected indicators are not found in the data.">>]
    ELSE IF AllMissing(t, selected_indicators)
    THEN [ret |-> AssignNaN(t),
          errors |-> <<"All values are missing for the selected indicators">>]
    ELSE LET wm == weighted_matrix(t, selected_indicators)
             score == topsis_score(wm)
         IN [ret |-> Assign(t, score, topsis_rank(score, t.index)),
             errors |-> <<>>]

\* topsis(normalize_data(df.copy(), selected_indicators), selected_indicators),
\* the table main's handler obtains from table t.
Engine(t, selected_indicators) ==
    topsis(normalize_data(t, selected_indicators).ret, selected_indicators).ret

---------------------------------------------------------------------------
\* The program: main's Calculate handler (lines 219-223) on an uploaded
\* table and a selection.  The selection is any set of indicator names: the
\* functions are specified for every caller, not only for main's multiselect.

VARIABLES
    uploaded,             \* the table load_and_preprocess_data read
    heap,                 \* reference -> the DataFrame it holds
    selected_indicators,  \* the selection (a set: every use is per column)
    normalized_df,        \* reference returned by normalize_data
    topsis_df,            \* table returned by topsis
    st_error,             \* the st.error messages shown, in order
    st_warning,           \* the st.warning messages shown, in order
    displayed,            \* whether display_results showed the table
    previous,             \* whether an earlier run ended, and the table it got
    pc                    \* position in the handler

vars == <<uploaded, heap, selected_indicators, normalized_df, topsis_df,
          st_error, st_warning, displayed, previous, pc>>

Init ==
    /\ uploaded \in UploadedTables
    /\ heap = ("df" :> uploaded)
    /\ selected_indicators \in SUBSET IndicatorNames
    /\ normalized_df = "None"
    /\ topsis_df = EmptyDataFrame
    /\ st_error = <<>>
    /\ st_warning = <<>>
    /\ displayed = FALSE
    /\ previous = [ran |-> FALSE, df |-> EmptyDataFrame]
    /\ pc = "calculate"

\* Without the copy, main passes its table itself.
NoCopy(h) == [heap |-> h, ref |-> "df"]

\* df.copy(): a new object holding the cells of df.
DfCopy(h) == [heap |-> ("copy" :> h["df"]) @@ h, ref |-> "copy"]

\* normalized_df = normalize_data(df.copy(), selected_indicators)
Normalize ==
    /\ pc = "calculate"
    /\ \E c \in {DfCopy(heap)} :
       \E res \in {normalize_data(c.heap[c.ref], selected_indicators)} :
       LET h == [c.heap EXCEPT ![c.ref] = res.arg]
       IN /\ heap' = IF res.same THEN h ELSE ("new" :> res.ret) @@ h
          /\ normalized_df' = IF res.same THEN c.ref ELSE "new"
          /\ st_error' = st_error \o res.errors
    /\ pc' = "normalized"
    /\ UNCHANGED <<uploaded, selected_indicators, topsis_df, st_warning, displayed,
                   previous>>

\* topsis_df = topsis(normalized_df, selected_indicators)
Topsis ==
    /\ pc = "normalized"
    /\ \E res \in {topsis(heap[normalized_df], selected_indicators)} :
          /\ topsis_df' = res.ret
          /\ st_error' = st_error \o res.errors
    /\ pc' = "scored"
    /\ UNCHANGED <<uploaded, heap, selected_indicators, normalized_df, st_warning,
                   displayed, previous>>

\* display_results(topsis_df, selected_indicators)
DisplayResults ==
    /\ pc = "scored"
    /\ IF IsEmpty(topsis_df) \/ "topsis_rank" \notin topsis_df.columns
       THEN /\ st_warning' = Append(st_warning, "No results to display.")
            /\ displayed' = FALSE
       ELSE /\ displayed' = TRUE
            /\ UNCHANGED st_warning
    /\ pc' = "displayed"
    /\ UNCHANGED <<uploaded, heap, selected_indicators, normalized_df, topsis_df,
                   st_error, previous>>

Next == Normalize \/ Topsis \/ DisplayResults

Spec == Init /\ [][Next]_vars

\* Calculate is clicked again with the same table and the same selection:
\* lines 221-223 run once more on the object df.  The locals of the run that
\* ended are gone and the page is drawn afresh.
Rerun ==
    /\ pc = "displayed"
    /\ previous' = [ran |-> TRUE, df |-> topsis_df]
    /\ heap' = ("df" :> heap["df"])
    /\ normalized_df' = "None"
    /\ topsis_df' = EmptyDataFrame
    /\ st_error' = <<>>
    /\ st_warning' = <<>>
    /\ displayed' = FALSE
    /\ pc' = "calculate"
    /\ UNCHANGED <<uploaded, selected_indicators>>

NextRerun == Normalize \/ Topsis \/ DisplayResults \/ Rerun

SpecRerun == Init /\ [][NextRerun]_vars

---------------------------------------------------------------------------
\* Vocabulary of the properties.

\* The selection is non-empty and names only columns of the uploaded table.
ValidSelection ==
    selected_indicators # {} /\ selected_indicators \subseteq uploaded.columns

\* normalize_data has returned; topsis has returned.
Normalized == pc = "normalized"
Scored == pc = "scored"
HasScores == Scored /\ "topsis_score" \in topsis_df.columns

\* The rows of table t with a defined score.
DefinedIn(t) == {r \in t.index : ~t.topsis_score[r].nan}
Defined == DefinedIn(topsis_df)

\* One row for each distinct defined score value: the first row that has it.
DistinctScores ==
    {r \in Defined : \A q \in Defined :
        q < r => ~ScoreEq(topsis_df.topsis_score[q], topsis_df.topsis_score[r])}

\* 1 + the number of distinct score values above the score of row r.
RankByCounting(r) ==
    1 + Cardinality({q \in DistinctScores :
            ScoreLess(topsis_df.topsis_score[r], topsis_df.topsis_score[q])})

\* C1: the rank topsis derives from the scores is a dense descending rank
\* over the rows with a defined score: the highest score has rank 1, equal
\* scores have equal ranks, a higher score has a smaller rank, and the ranks
\* are exactly 1..k for k distinct defined score values.
C1_DenseRankNoGaps ==
    HasScores =>
        \A score \in {topsis_df.topsis_score} :
        \A rank \in {DenseRank(score, topsis_df.index)} :
           /\ DOMAIN rank = Defined
           /\ {rank[r] : r \in Defined} = 1..Cardinality(DistinctScores)
           /\ \A r \in Defined :
                (\A q \in Defined : ~ScoreLess(score[r], score[q])) => rank[r] = 1
           /\ \A r, q \in Defined :
                /\ ScoreEq(score[r], score[q]) <=> rank[r] = rank[q]
                /\ ScoreLess(score[q], score[r]) => rank[r] < rank[q]

\* Three scored rows, two of them tied above or below the third.
C1_Witness ==
    /\ HasScores
    /\ Cardinality(Defined) = 3
    /\ Cardinality(DistinctScores) = 2

InUnitInterval(s) ==
    /\ ~RLess(s.w, Zero)
    /\ ~RLess(s.b, Zero)
    /\ (s.w.n # 0 \/ s.b.n # 0)

\* The distances topsis computes from the normalized table.
DistancesToBest ==
    distance_to_best(weighted_matrix(heap[normalized_df], selected_indicators))
DistancesToWorst ==
    distance_to_worst(weighted_matrix(heap[normalized_df], selected_indicators))

IsZeroDistance(x) == ~x.nan /\ x.n = 0

\* C3: every topsis_score is NaN or lies in [0, 1], and it is defined
\* whenever d_best + d_worst is nonzero.
C3_ScoreInUnitInterval ==
    HasScores =>
        \A to_best \in {DistancesToBest} : \A to_worst \in {DistancesToWorst} :
        \A r \in topsis_df.index :
            /\ topsis_df.topsis_score[r].nan \/ InUnitInterval(topsis_df.topsis_score[r])
            /\ ~(IsZeroDistance(to_best[r]) /\ IsZeroDistance(to_worst[r]))
                  => ~topsis_df.topsis_score[r].nan

\* One row with a score strictly inside the interval and one row without a
\* score.
C3_Witness ==
    /\ HasScores
    /\ \E r \in Defined :
          topsis_df.topsis_score[r].w.n # 0 /\ topsis_df.topsis_score[r].b.n # 0
    /\ topsis_df.index \ Defined # {}

\* A column without variance: no value at all, or all its values equal.
Degenerate(t, c) == Present(t, c) = {} \/ REq(NanMin(t, c), NanMax(t, c))

\* C4: when a selected column has zero variance or no value, the failure
\* to normalize it has been signalled by the time normalize_data and topsis
\* have returned, and the normalized table has no values in that column.
C4_DegenerateColumnSignalled ==
    Scored =>
        \A t \in {heap[normalized_df]} :
        \A c \in selected_indicators \cap uploaded.columns :
            Degenerate(uploaded, c) =>
                /\ st_error # <<>>
                /\ c \in t.columns => \A r \in t.index : t.at[r][c].nan

\* C5: an empty selection, or one naming a column the table does not have,
\* ends normalize_data and topsis with a reported error: once both have
\* returned, an error has been reported.
C5_SelectionErrorReported ==
    Scored /\ ~ValidSelection => st_error # <<>>

\* The result of a refused selection: no rows and no score column.  The
\* result of an accepted one: a row for every region, and a score column.
NoRows(t) == t.index = {} /\ "topsis_score" \notin t.columns
OneRowPerRegion(t) == t.index = uploaded.index /\ "topsis_score" \in t.columns

\* C6: for a non-empty table, topsis returns no rows and no score column
\* when the selection is empty or names a column the table does not have,
\* and one row per region for every valid selection, both when it is called
\* on the table itself and when it is called on what normalize_data returned.
C6_NoRowsIffInvalidSelection ==
    Scored =>
        \A direct \in {topsis(uploaded, selected_indicators).ret} :
            IF ValidSelection
            THEN OneRowPerRegion(topsis_df) /\ OneRowPerRegion(direct)
            ELSE NoRows(topsis_df) /\ NoRows(direct)

\* None of the selected columns exists, and topsis returned no rows.
C6_Witness ==
    /\ Scored
    /\ selected_indicators = {"Z"}
    /\ NoRows(topsis_df)
    /\ st_error # <<>>

\* The reference main passes to normalize_data.
Argument == DfCopy(heap).ref

\* C7 as stated: normalize_data leaves the table it is given unchanged, and
\* the normalized values are in another table.
C7_ArgumentUnchanged ==
    Normalized =>
        /\ heap[Argument] = uploaded
        /\ ValidSelection => normalized_df # Argument

\* C7 as amended: the loaded table keeps the value of every cell, because
\* main passes a copy of it; normalize_data writes the normalized values into
\* the table it is given, the copy, and returns that same table.
C7_LoadedTableUnchanged ==
    /\ heap["df"] = uploaded
    /\ Normalized /\ ValidSelection =>
          /\ normalized_df = Argument
          /\ normalized_df # "df"
          /\ heap[normalized_df] = AssignScaled(uploaded, selected_indicators)

\* The copy holds normalized values that differ from the loaded ones.
C7_Witness ==
    /\ Normalized
    /\ ValidSelection
    /\ heap[normalized_df] # uploaded
    /\ heap["df"] = uploaded

\* C8: in every selected column of the table normalize_data returns, a cell
\* is absent exactly when it is absent in the input; for a valid selection
\* the returned table has every row and every selected column.
C8_AbsentStaysAbsent ==
    Normalized =>
        \A t \in {heap[normalized_df]} :
            /\ ValidSelection =>
                  t.index = uploaded.index /\ selected_indicators \subseteq t.columns
            /\ \A r \in t.index : \A c \in selected_indicators \cap t.columns :
                  t.at[r][c].nan <=> uploaded.at[r][c].nan

\* A selected column with an absent cell, and a constant selected column
\* whose present cells are still present (as 0) after the call.
C8_Witness ==
    /\ Normalized
    /\ ValidSelection
    /\ \E c \in selected_indicators : \E r \in uploaded.index : uploaded.at[r][c].nan
    /\ \E c \in selected_indicators :
          /\ Present(uploaded, c) # {}
          /\ REq(NanMin(uploaded, c), NanMax(uploaded, c))
          /\ \A r \in Present(uploaded, c) : heap[normalized_df].at[r][c] = Zero

\* Table t without row r.
Without(t, r) ==
    [t EXCEPT !.index = t.index \ {r}, !.at = [q \in t.index \ {r} |-> t.at[q]]]

\* Every selected value of region r is absent, and another region has one.
OnlyAbsent(r) ==
    /\ \A c \in selected_indicators : uploaded.at[r][c].nan
    /\ \E q \in uploaded.index \ {r} : \E c \in selected_indicators :
          ~uploaded.at[q][c].nan

\* C9: a region whose selected values are all absent, while another region
\* has a value, is a row of the result with undefined score and rank; no
\* error is reported; the scores and percentiles of the other regions are
\* those computed from the table without that region.
C9_AbsentRegionKept ==
    Scored /\ ValidSelection =>
        \A r \in uploaded.index :
            OnlyAbsent(r) =>
                /\ OneRowPerRegion(topsis_df)
                /\ topsis_df.topsis_score[r].nan
                /\ topsis_df.topsis_rank[r].nan
                /\ st_error = <<>>
                /\ \A other \in {Engine(Without(uploaded, r), selected_indicators)} :
                   \A q \in uploaded.index \ {r} :
                      /\ other.topsis_score[q] = topsis_df.topsis_score[q]
                      /\ other.topsis_rank[q] = topsis_df.topsis_rank[q]

\* One region without any selected value beside two regions with different
\* scores.
C9_Witness ==
    /\ Scored
    /\ ValidSelection
    /\ \E r \in uploaded.index : OnlyAbsent(r) /\ topsis_df.topsis_rank[r].nan
    /\ Cardinality(DistinctScores) = 2

\* C10: when every score is undefined for a valid selection, topsis returns
\* one row per region with every score and rank undefined, and reports it.
C10_AllUndefinedReported ==
    HasScores /\ ValidSelection /\ Defined = {} =>
        /\ OneRowPerRegion(topsis_df)
        /\ \A r \in topsis_df.index : topsis_df.topsis_rank[r].nan
        /\ st_error # <<>>

\* C11: run any number of times on the same loaded table and selection, the
\* engine gets the same table of scores, ranks and percentiles each time; no
\* run changes the loaded table, and each run starts from the loaded table
\* alone.
C11_RunsAgree ==
    /\ heap["df"] = uploaded
    /\ pc = "calculate" => heap = ("df" :> uploaded)
    /\ Scored /\ previous.ran => topsis_df = previous.df

\* A later run has scored a table that normalization changed and that has
\* two different scores.
C11_Witness ==
    /\ HasScores
    /\ previous.ran
    /\ heap[normalized_df] # uploaded
    /\ Cardinality(DistinctScores) >= 2

\* The selected columns in which row r of the weighted matrix has a value.
PresentColumns(wm, r) == {c \in wm.columns : ~wm.at[r][c].nan}

\* The sum of the squared differences of row r to ideal over the columns S.
SquaresOver(wm, ideal, r, S) ==
    SumKeepNa([c \in S |-> SquaredDiff(wm.at[r][c], ideal[c])], S)

\* C12: the squared distance of every region to ideal_best, and to
\* ideal_worst, is the sum of the squared differences over exactly the
\* selected columns whose value is present for that region, and the score is
\* the quotient of these distances; a region with one present column has the
\* squared difference in that column as its squared distance, and a region
\* with none has distance 0.
C12_DistanceOverPresentColumns ==
    HasScores =>
        \A wm \in {weighted_matrix(heap[normalized_df], selected_indicators)} :
        \A best \in {ideal_best(wm)} : \A worst \in {ideal_worst(wm)} :
        \A to_best \in {distance_to_best(wm)} : \A to_worst \in {distance_to_worst(wm)} :
        \A r \in wm.index :
        \A P \in {PresentColumns(wm, r)} :
            /\ to_best[r] = SquaresOver(wm, best, r, P)
            /\ to_worst[r] = SquaresOver(wm, worst, r, P)
            /\ topsis_df.topsis_score[r] = Closeness(to_best[r], to_worst[r])
            /\ P = {} => to_best[r] = Zero /\ to_worst[r] = Zero
            /\ \A c \in P : P = {c} =>
                  /\ to_best[r] = SquaredDiff(wm.at[r][c], best[c])
                  /\ to_worst[r] = SquaredDiff(wm.at[r][c], worst[c])

\* Two columns selected; a region with a value in only one of them and a
\* defined score, beside a region with both values and a nonzero distance to
\* ideal_best in both.
C12_Witness ==
    /\ HasScores
    /\ selected_indicators = {"X", "Y"}
    /\ \E r \in Defined :
          Cardinality({c \in selected_indicators : uploaded.at[r][c].nan}) = 1
    /\ \E r \in Defined :
          /\ \A c \in selected_indicators : ~uploaded.at[r][c].nan
          /\ \A c \in selected_indicators :
                RLess(heap[normalized_df].at[r][c], NanMax(heap[normalized_df], c))

\* The score is exactly 1, exactly 0, exactly one half.
IsOne(s) == ~s.nan /\ s.b = Zero /\ s.w # Zero
IsZero(s) == ~s.nan /\ s.w = Zero /\ s.b # Zero
IsHalf(s) == ~s.nan /\ s.w # Zero /\ REq(s.w, s.b)

\* Row r of table t has a value in every column of S, and that value is the
\* greatest (the least) present value of its column.
AtMaxEverywhere(t, S, r) ==
    \A c \in S : ~t.at[r][c].nan /\ \A q \in t.index : ~RLess(t.at[r][c], t.at[q][c])
AtMinEverywhere(t, S, r) ==
    \A c \in S : ~t.at[r][c].nan /\ \A q \in t.index : ~RLess(t.at[q][c], t.at[r][c])

\* Some column of S has two different present values in table t.
SomeSpread(t, S) ==
    \E c \in S : \E q, r \in t.index : RLess(t.at[q][c], t.at[r][c])

\* The normalised table is Scenario A: X = Y = 1, 1/2, 0 in the rows hi, mid, lo.
ScenarioA(t, hi, mid, lo) ==
    /\ t.index = {hi, mid, lo}
    /\ \A c \in {"X", "Y"} :
          /\ t.at[hi][c] = One
          /\ t.at[mid][c] = Num(1, 2)
          /\ t.at[lo][c] = Zero

\* C13: when some selected column has two different values, a region that
\* has every selected value and equals the column maximum in each of them
\* scores 1 and has dense rank 1, and one that equals the column minimum in
\* each of them scores 0 and has the last dense rank; with X = Y = 1, 1/2, 0
\* selected the scores are 1, 1/2, 0 and the dense ranks 1, 2, 3.
C13_ExtremesScoreOneAndZero ==
    HasScores =>
        \A t \in {heap[normalized_df]} :
        \A score \in {topsis_df.topsis_score} :
        \A rank \in {DenseRank(score, topsis_df.index)} :
        \A k \in {Cardinality(DistinctScores)} :
            /\ SomeSpread(t, selected_indicators) =>
                  \A r \in t.index :
                     /\ AtMaxEverywhere(t, selected_indicators, r) =>
                           /\ IsOne(score[r])
                           /\ rank[r] = 1
                           /\ REq(topsis_df.topsis_rank[r], Num(100, k))
                     /\ AtMinEverywhere(t, selected_indicators, r) =>
                           /\ IsZero(score[r])
                           /\ rank[r] = k
                           /\ REq(topsis_df.topsis_rank[r], Num(100, 1))
            /\ selected_indicators = {"X", "Y"} =>
                  \A hi, mid, lo \in t.index :
                     ScenarioA(t, hi, mid, lo) =>
                        /\ IsOne(score[hi]) /\ IsHalf(score[mid]) /\ IsZero(score[lo])
                        /\ rank[hi] = 1 /\ rank[mid] = 2 /\ rank[lo] = 3

\* Scenario A has been scored: both columns selected, the normalised values
\* 1, 1/2, 0 in both, so one region is at the maximum of every column and one
\* at the minimum of every column.
C13_Witness ==
    /\ HasScores
    /\ selected_indicators = {"X", "Y"}
    /\ \E hi, mid, lo \in topsis_df.index :
          /\ ScenarioA(heap[normalized_df], hi, mid, lo)
          /\ AtMaxEverywhere(heap[normalized_df], selected_indicators, hi)
          /\ AtMinEverywhere(heap[normalized_df], selected_indicators, lo)
          /\ IsHalf(topsis_df.topsis_score[mid])

===========================================================================
